---- MODULE Spec2Model ----
(***************************************************************************)
(* Model of the REST backend of the SPA "Immagini Casuali":                *)
(*   webserver/src/index.js  validator, router and request handler         *)
(*   webserver/src/db.js     the six storage operations over table images  *)
(* A JavaScript string is a sequence of one-character strings, so that     *)
(* lengths, prefixes and digits are computed and not assumed.              *)
(***************************************************************************)
EXTENDS Integers, Sequences, FiniteSets, TLC

(***************************************************************************)
(* JavaScript / JSON values                                                *)
(***************************************************************************)
Undefined == [t |-> "undefined"]
Null == [t |-> "null"]
NaN == [t |-> "number", nan |-> TRUE, v |-> 0, f |-> 0]
\* the number v + f/10 (f = 0 for an integer)
Frac(n, d) == [t |-> "number", nan |-> FALSE, v |-> n, f |-> d]
Num(n) == Frac(n, 0)
Str(s) == [t |-> "string", s |-> s]
Bool(b) == [t |-> "boolean", b |-> b]
Arr(a) == [t |-> "array", a |-> a]
Obj(url, desc, rating, pos) ==
    [t |-> "object", image_url |-> url, description |-> desc,
     rating |-> rating, position |-> pos]
EmptyObj == Obj(Undefined, Undefined, Undefined, Undefined)
\* a request body that JSON.parse rejects
Garbage == [t |-> "garbage"]

\* immagine.<name> for a value other than null and undefined
Prop(o, name) == IF o.t = "object" THEN o[name] ELSE Undefined

\* the ! operator's notion of a falsy value, negated
Truthy(x) ==
    CASE x.t = "undefined" -> FALSE
      [] x.t = "null" -> FALSE
      [] x.t = "boolean" -> x.b
      [] x.t = "number" -> ~x.nan /\ ~(x.v = 0 /\ x.f = 0)
      [] x.t = "string" -> Len(x.s) > 0
      [] OTHER -> TRUE

Digits == <<"0", "1", "2", "3", "4", "5", "6", "7", "8", "9">>
IsDigit(c) == \E i \in 1..10 : Digits[i] = c
DigitOf(c) == (CHOOSE i \in 1..10 : Digits[i] = c) - 1

RECURSIVE DigitsValue(_)
DigitsValue(s) ==
    IF s = <<>> THEN 0
    ELSE 10 * DigitsValue(SubSeq(s, 1, Len(s) - 1)) + DigitOf(s[Len(s)])

\* Number(<string>) for strings made of digits and letters only
StringToNumber(s) ==
    IF s = <<>> THEN Num(0)
    ELSE IF \A i \in 1..Len(s) : IsDigit(s[i]) THEN Num(DigitsValue(s))
    ELSE NaN

\* Number(x)
ToNumber(x) ==
    CASE x.t = "undefined" -> NaN
      [] x.t = "null" -> Num(0)
      [] x.t = "boolean" -> IF x.b THEN Num(1) ELSE Num(0)
      [] x.t = "number" -> x
      [] x.t = "string" -> StringToNumber(x.s)
      [] x.t = "array" ->
            IF Len(x.a) = 0 THEN Num(0)
            ELSE IF Len(x.a) > 1 THEN NaN
            ELSE CASE x.a[1].t = "number" -> x.a[1]
                   [] x.a[1].t = "string" -> StringToNumber(x.a[1].s)
                   [] x.a[1].t \in {"null", "undefined"} -> Num(0)
                   [] OTHER -> NaN
      [] OTHER -> NaN

\* Number.isInteger
IsInteger(n) == n.t = "number" /\ ~n.nan /\ n.f = 0

\* s starts with the characters of p
StartsWith(s, p) == Len(s) >= Len(p) /\ SubSeq(s, 1, Len(p)) = p

LineTerminators == {"\n", "\r"}
\* /^<p>.+/.test(s): the prefix, then at least one character other than a
\* line terminator
PrefixThenAny(s, p) ==
    StartsWith(s, p) /\ Len(s) > Len(p) /\ s[Len(p) + 1] \notin LineTerminators

HttpPrefix == <<"h", "t", "t", "p", ":", "/", "/">>
HttpsPrefix == <<"h", "t", "t", "p", "s", ":", "/", "/">>
DataImagePrefix == <<"d", "a", "t", "a", ":", "i", "m", "a", "g", "e", "/">>

\* /^https?:\/\/.+/
MatchesHttp(s) == PrefixThenAny(s, HttpPrefix) \/ PrefixThenAny(s, HttpsPrefix)
\* /^data:image\/.+/
MatchesDataImage(s) == PrefixThenAny(s, DataImagePrefix)

ErrUrlObbligatorio == "L'URL dell'immagine e' obbligatorio."
ErrUrlNonValido ==
    "L'URL dell'immagine deve essere valido (http/https) o un'immagine in base64."
ErrVotoObbligatorio == "Il voto e' obbligatorio."
ErrVotoIntervallo == "Il voto deve essere un numero intero compreso tra 1 e 5."
ErrDescrizione == "La descrizione non puo' superare i 200 caratteri."

MaxDescrizione == 200
VotoMin == 1
VotoMax == 5

\* reading a property of null or undefined raises a TypeError
validaThrows(immagine) == immagine.t \in {"null", "undefined"}

erroriUrl(url) ==
    IF ~Truthy(url) \/ url.t # "string" THEN <<ErrUrlObbligatorio>>
    ELSE IF ~MatchesHttp(url.s) /\ ~MatchesDataImage(url.s) THEN <<ErrUrlNonValido>>
    ELSE <<>>

erroriVoto(rating) ==
    IF rating.t \in {"undefined", "null"} THEN <<ErrVotoObbligatorio>>
    ELSE LET voto == ToNumber(rating)
         IN  IF ~IsInteger(voto) \/ voto.v < VotoMin \/ voto.v > VotoMax
             THEN <<ErrVotoIntervallo>>
             ELSE <<>>

\* a validator that already rejects a description of exactly 200 characters
erroriDescrizioneOffByOne(description) ==
    IF Truthy(description) /\ description.t = "string"
       /\ Len(description.s) >= MaxDescrizione
    THEN <<ErrDescrizione>>
    ELSE <<>>

erroriDescrizione(description) ==
    IF Truthy(description) /\ description.t = "string"
       /\ Len(description.s) > MaxDescrizione
    THEN <<ErrDescrizione>>
    ELSE <<>>

\* the list validaImmagine returns, for an argument that does not make it throw
validaImmagine(immagine) ==
    erroriUrl(Prop(immagine, "image_url"))
        \o erroriVoto(Prop(immagine, "rating"))
        \o erroriDescrizione(Prop(immagine, "description"))

(***************************************************************************)
(* Router: reqMatch and the helpers it rests on                            *)
(***************************************************************************)
Slash == "/"
Colon == ":"

RECURSIVE Split(_)
\* s.split('/'): the segments between the slashes, empty ones included
Split(s) ==
    IF \A i \in 1..Len(s) : s[i] # Slash THEN <<s>>
    ELSE LET k == CHOOSE i \in 1..Len(s) :
                      s[i] = Slash /\ \A j \in 1..(i - 1) : s[j] # Slash
         IN  <<SubSeq(s, 1, k - 1)>> \o Split(SubSeq(s, k + 1, Len(s)))

\* params[paramName] = value
Bind(params, paramName, value) ==
    [n \in (DOMAIN params) \cup {paramName} |->
        IF n = paramName THEN value ELSE params[n]]

NoParams == [n \in {} |-> <<>>]

RECURSIVE matchSegments(_, _, _, _)
\* the for loop of reqMatch, from index i on
matchSegments(urlSplit, pathSplit, i, params) ==
    IF i > Len(urlSplit) THEN [result |-> TRUE, params |-> params]
    ELSE IF StartsWith(pathSplit[i], <<Colon>>)
    THEN matchSegments(urlSplit, pathSplit, i + 1,
             Bind(params, SubSeq(pathSplit[i], 2, Len(pathSplit[i])), urlSplit[i]))
    ELSE IF pathSplit[i] # urlSplit[i] THEN [result |-> FALSE, params |-> params]
    ELSE matchSegments(urlSplit, pathSplit, i + 1, params)

\* a reqMatch that forgets to compare the method
reqMatchAnyMethod(r, method, path) ==
    LET urlSplit == Split(r.url)
        pathSplit == Split(path)
    IN  IF Len(urlSplit) # Len(pathSplit)
        THEN [result |-> FALSE, params |-> NoParams]
        ELSE matchSegments(urlSplit, pathSplit, 1, NoParams)

\* reqMatch(method, path) for the request r: the boolean it returns and the
\* params it leaves behind
reqMatch(r, method, path) ==
    IF r.method # method THEN [result |-> FALSE, params |-> NoParams]
    ELSE LET urlSplit == Split(r.url)
             pathSplit == Split(path)
         IN  IF Len(urlSplit) # Len(pathSplit)
             THEN [result |-> FALSE, params |-> NoParams]
             ELSE matchSegments(urlSplit, pathSplit, 1, NoParams)

PathImages == <<"/", "i", "m", "a", "g", "e", "s">>
PathImagesId == PathImages \o <<"/", ":", "i", "d">>
ParamId == <<"i", "d">>

\* the if / else-if chain of the handler, in its order
Routes ==
    << [name |-> "GET /images", method |-> "GET", path |-> PathImages],
       [name |-> "POST /images", method |-> "POST", path |-> PathImages],
       [name |-> "GET /images/:id", method |-> "GET", path |-> PathImagesId],
       [name |-> "PUT /images/:id", method |-> "PUT", path |-> PathImagesId],
       [name |-> "DELETE /images/:id", method |-> "DELETE", path |-> PathImagesId] >>

RECURSIVE dispatchFrom(_, _)
\* walks the chain from its i-th test: the branch taken, the params the last
\* reqMatch call left, and the number of reqMatch calls made
dispatchFrom(r, i) ==
    IF i > Len(Routes) THEN [route |-> "none", params |-> NoParams, tests |-> i - 1]
    ELSE LET m == reqMatch(r, Routes[i].method, Routes[i].path)
         IN  IF m.result
             THEN [route |-> Routes[i].name, params |-> m.params, tests |-> i]
             ELSE IF i = Len(Routes)
                  THEN [route |-> "none", params |-> m.params, tests |-> i]
                  ELSE dispatchFrom(r, i + 1)

dispatch(r) == dispatchFrom(r, 1)

\* the number of leading decimal digits of s
LeadingDigits(s) ==
    IF \A i \in 1..Len(s) : IsDigit(s[i]) THEN Len(s)
    ELSE (CHOOSE i \in 1..Len(s) :
              ~IsDigit(s[i]) /\ \A j \in 1..(i - 1) : IsDigit(s[j])) - 1

\* parseInt(s) for strings without leading blanks or sign
parseInt(s) ==
    IF LeadingDigits(s) = 0 THEN NaN
    ELSE Num(DigitsValue(SubSeq(s, 1, LeadingDigits(s))))

RECURSIVE NatToString(_)
\* the decimal digits of a natural number
NatToString(n) ==
    IF n < 10 THEN <<Digits[n + 1]>>
    ELSE NatToString(n \div 10) \o <<Digits[(n % 10) + 1]>>

(***************************************************************************)
(* Storage: the table images behind db.js.  A stored column value is the   *)
(* JavaScript value the driver reads back: Null, a string or an integer.   *)
(***************************************************************************)
SqlError == [t |-> "sqlerror"]

\* the SQL literal the driver's query() puts in place of a ? for a scalar
sqlEscapeScalar(x) ==
    CASE x.t \in {"undefined", "null"} -> Null
      [] x.t = "boolean" -> IF x.b THEN Num(1) ELSE Num(0)
      [] x.t = "number" -> IF x.nan THEN SqlError ELSE x
      [] x.t = "string" -> x
      [] OTHER -> SqlError

\* the same for any value: an array expands to the list of its elements, and
\* only a list of one element is a value where one value is expected
sqlEscape(x) ==
    IF x.t = "array"
    THEN IF Len(x.a) = 1 THEN sqlEscapeScalar(x.a[1]) ELSE SqlError
    ELSE sqlEscapeScalar(x)

\* the text of a number, as the server converts it for a text column
NumberToString(n) ==
    IF n.f = 0 THEN NatToString(n.v)
    ELSE NatToString(n.v) \o <<".">> \o NatToString(n.f)

\* what a LONGTEXT / TEXT column keeps of a literal
toTextColumn(lit) ==
    CASE lit.t = "number" -> Str(NumberToString(lit))
      [] OTHER -> lit

\* what an INT column keeps of a literal: a number is rounded, a string is
\* read as a number, and a string that is not one is rejected (the strict
\* sql_mode, the server's default)
toIntColumn(lit) ==
    CASE lit.t = "number" -> Num(lit.v + (IF lit.f >= 5 THEN 1 ELSE 0))
      [] lit.t = "string" ->
            IF lit.s # <<>> /\ LeadingDigits(lit.s) = Len(lit.s)
            THEN Num(DigitsValue(lit.s))
            ELSE SqlError
      [] OTHER -> lit

\* a create that passes immagine.position on as it is
positionAsGiven(immagine) == Prop(immagine, "position")

\* immagine.position || 0
positionOrZero(immagine) ==
    IF Truthy(Prop(immagine, "position")) THEN Prop(immagine, "position") ELSE Num(0)

\* the four column values INSERT and UPDATE ... SET write
columnValues(immagine) ==
    [image_url |-> toTextColumn(sqlEscape(Prop(immagine, "image_url"))),
     description |-> toTextColumn(sqlEscape(Prop(immagine, "description"))),
     rating |-> toIntColumn(sqlEscape(Prop(immagine, "rating"))),
     position |-> toIntColumn(sqlEscape(positionOrZero(immagine)))]

columnsFail(c) ==
    SqlError \in {c.image_url, c.description, c.rating, c.position}

Row(id, c) ==
    [id |-> id, image_url |-> c.image_url, description |-> c.description,
     rating |-> c.rating, position |-> c.position]

\* the value a storage operation hands back
RetBool(b) == [kind |-> "bool", b |-> b]
RetRow(r) == [kind |-> "row", row |-> r]
RetNull == [kind |-> "null"]
RetRows(rs) == [kind |-> "rows", rows |-> rs]
NoRet == [kind |-> "none"]

\* how a storage operation ends: its return value or the exception it lets
\* out, whether its connection is still open, and the table afterwards
Outcome(ret, threw, leak, imgs, nid) ==
    [ret |-> ret, threw |-> threw, leak |-> leak, images |-> imgs, nextId |-> nid]

\* the fault of one call: none, createConnection rejects, the query rejects
Faults == {"none", "connect", "query"}

\* ORDER BY position ASC, id DESC (NULL sorts first in ascending order)
positionBefore(p, q) ==
    IF p.t = "null" THEN q.t # "null"
    ELSE q.t # "null" /\ p.v < q.v

\* ORDER BY position ASC, id ASC
orderBeforeIdAscending(a, b) ==
    \/ positionBefore(a.position, b.position)
    \/ a.position = b.position /\ a.id < b.id

orderBefore(a, b) ==
    \/ positionBefore(a.position, b.position)
    \/ a.position = b.position /\ a.id > b.id

RECURSIVE orderBy(_)
orderBy(rows) ==
    IF rows = {} THEN <<>>
    ELSE LET first == CHOOSE r \in rows : \A o \in rows \ {r} : orderBefore(r, o)
         IN  <<first>> \o orderBy(rows \ {first})

getImmagini(imgs, nid, fault) ==
    IF fault = "connect" THEN Outcome(NoRet, TRUE, FALSE, imgs, nid)
    ELSE IF fault = "query" THEN Outcome(NoRet, TRUE, TRUE, imgs, nid)
    ELSE Outcome(RetRows(orderBy(imgs)), FALSE, FALSE, imgs, nid)

salvaImmagine(imgs, nid, immagine, fault) ==
    LET c == columnValues(immagine)
    IN  IF fault # "none" \/ columnsFail(c)
        THEN Outcome(RetBool(FALSE), FALSE, FALSE, imgs, nid)
        ELSE Outcome(RetBool(TRUE), FALSE, FALSE, imgs \cup {Row(nid, c)}, nid + 1)

\* the rows WHERE id = ? selects; a NaN id makes the query fail
whereId(imgs, id) == {r \in imgs : ~id.nan /\ id.f = 0 /\ r.id = id.v}

trovaImmagine(imgs, nid, id, fault) ==
    IF fault # "none" \/ id.nan \/ whereId(imgs, id) = {}
    THEN Outcome(RetNull, FALSE, FALSE, imgs, nid)
    ELSE Outcome(RetRow(CHOOSE r \in whereId(imgs, id) : TRUE), FALSE, FALSE, imgs, nid)

modificaImmagine(imgs, nid, id, immagine, fault) ==
    LET c == columnValues(immagine)
        hit == whereId(imgs, id)
    IN  IF fault # "none" \/ id.nan \/ columnsFail(c)
        THEN Outcome(RetBool(FALSE), FALSE, FALSE, imgs, nid)
        ELSE Outcome(RetBool(hit # {}), FALSE, FALSE,
                     (imgs \ hit) \cup {Row(r.id, c) : r \in hit}, nid)

eliminaImmagine(imgs, nid, id, fault) ==
    IF fault # "none" \/ id.nan
    THEN Outcome(RetBool(FALSE), FALSE, FALSE, imgs, nid)
    ELSE Outcome(RetBool(whereId(imgs, id) # {}), FALSE, FALSE,
                 imgs \ whereId(imgs, id), nid)

\* UPDATE images SET position = ? WHERE id = ? for one item of ordini
updatePosition(imgs, item) ==
    LET p == toIntColumn(sqlEscape(item.position))
        i == sqlEscape(item.id)
    IN  {IF i.t = "number" /\ i.f = 0 /\ r.id = i.v
         THEN [r EXCEPT !.position = p] ELSE r : r \in imgs}

updatePositionFails(item) ==
    SqlError \in {toIntColumn(sqlEscape(item.position)), sqlEscape(item.id)}

RECURSIVE updatePositions(_, _, _, _)
\* the for loop of aggiornaPosizioni from item k on; failAt is the item whose
\* query the server rejects (0 for none).  The table it leaves and whether
\* the loop ran to its end.
updatePositions(imgs, ordini, k, failAt) ==
    IF k > Len(ordini) THEN [images |-> imgs, ok |-> TRUE]
    ELSE IF k = failAt \/ updatePositionFails(ordini[k])
    THEN [images |-> imgs, ok |-> FALSE]
    ELSE updatePositions(updatePosition(imgs, ordini[k]), ordini, k + 1, failAt)

aggiornaPosizioni(imgs, nid, ordini, failAt, fault) ==
    IF fault = "connect" THEN Outcome(RetBool(FALSE), FALSE, FALSE, imgs, nid)
    ELSE LET u == updatePositions(imgs, ordini, 1, failAt)
         IN  Outcome(RetBool(u.ok), FALSE, FALSE, u.images, nid)

(***************************************************************************)
(* Request handler                                                         *)
(***************************************************************************)
CorsHeaders ==
    { <<"Access-Control-Allow-Origin", "*">>,
      <<"Access-Control-Allow-Methods", "GET, POST, PUT, DELETE, OPTIONS">>,
      <<"Access-Control-Allow-Headers", "Content-Type">> }
JsonHeader == <<"Content-Type", "application/json">>

ErrSalvataggio == "Errore nel salvataggio del database (verificare log backend)"

\* what res.end was given
BodyNone == [kind |-> "none"]
BodyEmpty == [kind |-> "empty"]
BodyOk == [kind |-> "ok"]
BodyErrori(e) == [kind |-> "errori", errori |-> e]
BodyRow(r) == [kind |-> "row", row |-> r]
BodyRows(rs) == [kind |-> "rows", rows |-> rs]

\* the response object when the handler starts, and after res.end
NewResponse == [statusCode |-> 200, body |-> BodyNone, ended |-> 0, headers |-> {}]
Respond(status, body, hdrs) ==
    [statusCode |-> status, body |-> body, ended |-> 1, headers |-> hdrs]
\* the handler's promise rejected before any res.end
Unended(hdrs) == [NewResponse EXCEPT !.headers = hdrs]

\* getBody: the parsed body, {} when JSON.parse throws
getBody(r) == IF r.body = Garbage THEN EmptyObj ELSE r.body

\* one handling of a request, before any branch has acted
Handling(d, imgs, nid) ==
    [route |-> d.route, params |-> d.params, tests |-> d.tests,
     bodyRead |-> FALSE, valida |-> "no", errori |-> <<>>, dbCalls |-> <<>>,
     ret |-> NoRet, thrown |-> FALSE, leak |-> FALSE,
     images |-> imgs, nextId |-> nid,
     res |-> Unended(CorsHeaders \cup {JsonHeader})]

\* the effect of a storage call on a handling
Called(h, name, out) ==
    [h EXCEPT !.dbCalls = Append(@, name), !.ret = out.ret, !.thrown = out.threw,
              !.leak = out.leak, !.images = out.images, !.nextId = out.nextId]

End(h, status, body) ==
    [h EXCEPT !.res = Respond(status, body, CorsHeaders \cup {JsonHeader})]

\* an OPTIONS branch without its return: the routing chain runs too and the
\* fallback ends the response a second time
handleOptionsFallsThrough(imgs, nid) ==
    [Handling([route |-> "OPTIONS", params |-> NoParams, tests |-> Len(Routes)], imgs, nid)
        EXCEPT !.res = [statusCode |-> 404, body |-> BodyEmpty, ended |-> 2,
                        headers |-> CorsHeaders \cup {JsonHeader}]]

handleOptions(imgs, nid) ==
    [Handling([route |-> "OPTIONS", params |-> NoParams, tests |-> 0], imgs, nid)
        EXCEPT !.res = Respond(204, BodyEmpty, CorsHeaders)]

handleList(h, fault) ==
    LET c == Called(h, "getImmagini", getImmagini(h.images, h.nextId, fault))
    IN  IF c.thrown THEN c ELSE End(c, 200, BodyRows(c.ret.rows))

handleCreate(h, r, fault) ==
    LET immagine == getBody(r)
        b == [h EXCEPT !.bodyRead = TRUE]
    IN  IF validaThrows(immagine) THEN [b EXCEPT !.valida = "threw", !.thrown = TRUE]
        ELSE LET v == [b EXCEPT !.valida = "returned",
                                !.errori = validaImmagine(immagine)]
             IN  IF Len(v.errori) > 0 THEN End(v, 400, BodyErrori(v.errori))
                 ELSE LET c == Called(v, "salvaImmagine",
                                  salvaImmagine(v.images, v.nextId, immagine, fault))
                      IN  IF c.ret.b THEN End(c, 201, BodyOk)
                          ELSE End(c, 400, BodyErrori(<<ErrSalvataggio>>))

handleGet(h, fault) ==
    LET id == parseInt(h.params[ParamId])
        c == Called(h, "trovaImmagine", trovaImmagine(h.images, h.nextId, id, fault))
    IN  IF c.ret.kind = "row" THEN End(c, 200, BodyRow(c.ret.row))
        ELSE End(c, 404, BodyEmpty)

\* an update that stores the payload whatever the validator said
handleUpdateUnchecked(h, r, fault) ==
    LET id == parseInt(h.params[ParamId])
        immagine == getBody(r)
        b == [h EXCEPT !.bodyRead = TRUE]
    IN  IF validaThrows(immagine) THEN [b EXCEPT !.valida = "threw", !.thrown = TRUE]
        ELSE LET v == [b EXCEPT !.valida = "returned",
                                !.errori = validaImmagine(immagine)]
                 c == Called(v, "modificaImmagine",
                             modificaImmagine(v.images, v.nextId, id, immagine, fault))
             IN  End(c, IF c.ret.b THEN 204 ELSE 404, BodyEmpty)

handleUpdate(h, r, fault) ==
    LET id == parseInt(h.params[ParamId])
        immagine == getBody(r)
        b == [h EXCEPT !.bodyRead = TRUE]
    IN  IF validaThrows(immagine) THEN [b EXCEPT !.valida = "threw", !.thrown = TRUE]
        ELSE LET v == [b EXCEPT !.valida = "returned",
                                !.errori = validaImmagine(immagine)]
             IN  IF Len(v.errori) > 0 THEN End(v, 400, BodyErrori(v.errori))
                 ELSE LET c == Called(v, "modificaImmagine",
                                  modificaImmagine(v.images, v.nextId, id, immagine, fault))
                      IN  End(c, IF c.ret.b THEN 204 ELSE 404, BodyEmpty)

handleDelete(h, fault) ==
    LET id == parseInt(h.params[ParamId])
        c == Called(h, "eliminaImmagine", eliminaImmagine(h.images, h.nextId, id, fault))
    IN  End(c, IF c.ret.b THEN 204 ELSE 404, BodyEmpty)

handleFallback(h) == End(h, 404, BodyEmpty)

\* the callback of http.createServer for the request r
handle(r, imgs, nid, fault) ==
    IF r.method = "OPTIONS" THEN handleOptions(imgs, nid)
    ELSE LET h == Handling(dispatch(r), imgs, nid)
         IN  CASE h.route = "GET /images" -> handleList(h, fault)
               [] h.route = "POST /images" -> handleCreate(h, r, fault)
               [] h.route = "GET /images/:id" -> handleGet(h, fault)
               [] h.route = "PUT /images/:id" -> handleUpdate(h, r, fault)
               [] h.route = "DELETE /images/:id" -> handleDelete(h, fault)
               [] OTHER -> handleFallback(h)

(***************************************************************************)
(* State                                                                   *)
(***************************************************************************)
VARIABLES
    images,      \* the rows of table images
    nextId,      \* the table's AUTO_INCREMENT counter
    openConns,   \* connections opened and not closed
    req,         \* the request handled last
    res,         \* its response
    route,       \* the branch of the routing chain it took
    params,      \* params as the last reqMatch call left it
    tests,       \* the number of reqMatch calls made
    bodyRead,    \* getBody was called
    valida,      \* validaImmagine: "no" (not called), "returned" or "threw"
    errori,      \* the list validaImmagine returned
    dbCalls,     \* the storage operations called, in order
    ret,         \* what the last storage operation returned
    thrown,      \* the handling ended by an exception
    created      \* the last row created and its payload, while untouched

vars == <<images, nextId, openConns, req, res, route, params, tests, bodyRead,
          valida, errori, dbCalls, ret, thrown, created>>

(***************************************************************************)
(* Bounds and inputs                                                       *)
(***************************************************************************)
MaxId == 1
MaxOpenConns == 1
MaxRows == 3
MaxOrdini == 1

Text(n) == [i \in 1..n |-> "x"]
UrlHttp == HttpPrefix \o <<"a">>
UrlHttps == HttpsPrefix \o <<"b">>
UrlData == DataImagePrefix \o <<"p", "n", "g">>
UrlFtp == <<"f", "t", "p", ":", "/", "/", "a">>

\* payloads that meet the data model
ValidBodies ==
    { Obj(Str(UrlHttp), Undefined, Num(3), Undefined),
      Obj(Str(UrlData), Str(Text(MaxDescrizione)), Num(5), Num(2)) }

\* payloads the validator lets through although a field has the wrong type
LooseBodies ==
    { Obj(Str(UrlHttps), Arr(<<Str(Text(MaxDescrizione + 1))>>), Str(<<"3">>), Frac(2, 5)) }

\* payloads the validator rejects
BadBodies ==
    { Obj(Str(UrlFtp), Str(Text(MaxDescrizione + 1)), Num(6), Undefined),
      Obj(Str(UrlHttp), Str(Text(MaxDescrizione + 1)), Num(3), Num(1)) }

\* bodies that are not a JSON object
OtherBodies == { Garbage, Null, Num(7), Arr(<<>>) }

Bodies == ValidBodies \cup LooseBodies \cup BadBodies \cup OtherBodies

Methods == {"GET", "POST", "PUT", "DELETE", "OPTIONS", "PATCH"}

IdUrls == {PathImages \o <<Slash>> \o NatToString(i) : i \in 1..MaxId}
Urls ==
    IdUrls \cup
    { PathImages,
      PathImages \o <<Slash>>,
      PathImages \o <<Slash, "x">>,
      PathImages \o <<Slash, "1", Slash, "2">>,
      <<Slash, "o", "t", "h", "e", "r">> }

Request(m, u, b) == [method |-> m, url |-> u, body |-> b]
NoRequest == Request("none", <<>>, Garbage)

\* every method on every url with an empty body, and every body on the
\* methods that carry one
Requests ==
    {Request(m, u, Garbage) : m \in Methods, u \in Urls}
    \cup {Request("POST", PathImages, b) : b \in Bodies}
    \cup {Request("PUT", u, b) : u \in IdUrls, b \in Bodies}
    \cup {Request("OPTIONS", PathImages, b) : b \in ValidBodies}

NoCreated == [id |-> 0, body |-> Garbage]

Init ==
    /\ images = {}
    /\ nextId = 1
    /\ openConns = 0
    /\ req = NoRequest
    /\ res = NewResponse
    /\ route = "idle"
    /\ params = NoParams
    /\ tests = 0
    /\ bodyRead = FALSE
    /\ valida = "no"
    /\ errori = <<>>
    /\ dbCalls = <<>>
    /\ ret = NoRet
    /\ thrown = FALSE
    /\ created = NoCreated

\* the row created last, until an update or a delete touches it
Remember(r, h) ==
    IF h.route = "POST /images" /\ h.res.statusCode = 201
    THEN [id |-> nextId, body |-> getBody(r)]
    ELSE IF \E x \in h.images : x.id = created.id /\ x \in images
    THEN created
    ELSE NoCreated

\* the server handles r to its end, h being what the handler did
Serve(r, h) ==
    /\ h.nextId <= MaxId + 1
    /\ openConns + (IF h.leak THEN 1 ELSE 0) <= MaxOpenConns
    /\ images' = h.images
    /\ nextId' = h.nextId
    /\ openConns' = openConns + (IF h.leak THEN 1 ELSE 0)
    /\ req' = r
    /\ res' = h.res
    /\ route' = h.route
    /\ params' = h.params
    /\ tests' = h.tests
    /\ bodyRead' = h.bodyRead
    /\ valida' = h.valida
    /\ errori' = h.errori
    /\ dbCalls' = h.dbCalls
    /\ ret' = h.ret
    /\ thrown' = h.thrown
    /\ created' = Remember(r, h)

\* the requests of the input set by the branch of the handler they take
OptionsRequests == {r \in Requests : r.method = "OPTIONS"}
Routed(name) == {r \in Requests : r.method # "OPTIONS" /\ dispatch(r).route = name}
ListRequests == Routed("GET /images")
CreateRequests == Routed("POST /images")
GetRequests == Routed("GET /images/:id")
UpdateRequests == Routed("PUT /images/:id")
DeleteRequests == Routed("DELETE /images/:id")
FallbackRequests == Routed("none")

Options ==
    \E r \in OptionsRequests : Serve(r, handle(r, images, nextId, "none"))
ListImages ==
    \E r \in ListRequests, fault \in Faults : Serve(r, handle(r, images, nextId, fault))
CreateImage ==
    \E r \in CreateRequests, fault \in Faults : Serve(r, handle(r, images, nextId, fault))
GetImage ==
    \E r \in GetRequests, fault \in Faults : Serve(r, handle(r, images, nextId, fault))
UpdateImage ==
    \E r \in UpdateRequests, fault \in Faults : Serve(r, handle(r, images, nextId, fault))
DeleteImage ==
    \E r \in DeleteRequests, fault \in Faults : Serve(r, handle(r, images, nextId, fault))
NotFound ==
    \E r \in FallbackRequests : Serve(r, handle(r, images, nextId, "none"))

Next ==
    \/ Options
    \/ ListImages
    \/ CreateImage
    \/ GetImage
    \/ UpdateImage
    \/ DeleteImage
    \/ NotFound

Spec == Init /\ [][Next]_vars

(***************************************************************************)
(* The storage operations called directly, as db.js exports them           *)
(* (aggiornaPosizioni is exported and has no route in index.js)            *)
(***************************************************************************)
DbBodies == { Obj(Str(UrlHttp), Undefined, Num(3), p) : p \in {Undefined, Num(1)} }
DbIds == {Num(i) : i \in 1..MaxRows}
Items == [id : DbIds, position : {Undefined, Num(0)}]
Ordini == UNION {[1..n -> Items] : n \in 0..MaxOrdini}

\* the storage operation name has ended as out says
DbStep(name, out) ==
    /\ out.nextId <= MaxRows + 1
    /\ openConns + (IF out.leak THEN 1 ELSE 0) <= MaxOpenConns
    /\ images' = out.images
    /\ nextId' = out.nextId
    /\ openConns' = openConns + (IF out.leak THEN 1 ELSE 0)
    /\ dbCalls' = <<name>>
    /\ ret' = out.ret
    /\ thrown' = out.threw
    /\ UNCHANGED <<req, res, route, params, tests, bodyRead, valida, errori, created>>

DbGetImmagini ==
    \E fault \in Faults : DbStep("getImmagini", getImmagini(images, nextId, fault))
DbSalvaImmagine ==
    \E b \in DbBodies, fault \in Faults :
        DbStep("salvaImmagine", salvaImmagine(images, nextId, b, fault))
DbTrovaImmagine ==
    \E id \in DbIds, fault \in Faults :
        DbStep("trovaImmagine", trovaImmagine(images, nextId, id, fault))
DbModificaImmagine ==
    \E id \in DbIds, b \in DbBodies, fault \in Faults :
        DbStep("modificaImmagine", modificaImmagine(images, nextId, id, b, fault))
DbEliminaImmagine ==
    \E id \in DbIds, fault \in Faults :
        DbStep("eliminaImmagine", eliminaImmagine(images, nextId, id, fault))
DbAggiornaPosizioni ==
    \E ordini \in Ordini, fault \in {"none", "connect"} :
        \E failAt \in 0..Len(ordini) :
            DbStep("aggiornaPosizioni",
                   aggiornaPosizioni(images, nextId, ordini, failAt, fault))

NextDb ==
    \/ DbGetImmagini
    \/ DbSalvaImmagine
    \/ DbTrovaImmagine
    \/ DbModificaImmagine
    \/ DbEliminaImmagine
    \/ DbAggiornaPosizioni

SpecDb == Init /\ [][NextDb]_vars

(***************************************************************************)
(* validaImmagine on its own, over a wide set of arguments                 *)
(***************************************************************************)
UrlInputs ==
    { Undefined, Null, Num(5), Str(<<>>), Arr(<<Str(UrlHttp)>>),
      Str(UrlHttp), Str(UrlHttps), Str(UrlData), Str(UrlFtp),
      Str(HttpPrefix), Str(HttpsPrefix \o <<"\n">>), Str(DataImagePrefix),
      Str(<<"x">> \o UrlHttp) }
RatingInputs ==
    { Undefined, Null, Num(0), Num(1), Num(3), Num(5), Num(6), Frac(2, 5),
      Str(<<"3">>), Str(<<"1", "0">>), Str(<<"a">>), Str(<<>>),
      Bool(TRUE), Bool(FALSE), Arr(<<Num(4)>>), Arr(<<Num(1), Num(2)>>) }
DescriptionInputs ==
    { Undefined, Null, Str(<<>>), Str(Text(1)), Str(Text(MaxDescrizione - 1)),
      Str(Text(MaxDescrizione)), Str(Text(MaxDescrizione + 1)), Num(7),
      Arr(<<Str(Text(MaxDescrizione + 1))>>) }
ValidaInputs ==
    { Obj(u, d, v, Undefined) : u \in UrlInputs, d \in DescriptionInputs, v \in RatingInputs }
    \cup { Null, Num(7), Str(UrlHttp), Arr(<<>>) }

InitValida ==
    /\ Init!1 /\ Init!2 /\ Init!3
    /\ req \in {Request("POST", PathImages, b) : b \in ValidaInputs}
    /\ res = NewResponse
    /\ route = "idle"
    /\ params = NoParams
    /\ tests = 0
    /\ bodyRead = FALSE
    /\ valida = "no"
    /\ errori = <<>>
    /\ dbCalls = <<>>
    /\ ret = NoRet
    /\ thrown = FALSE
    /\ created = NoCreated

\* validaImmagine(req.body) is called
Valida ==
    /\ valida = "no"
    /\ valida' = IF validaThrows(req.body) THEN "threw" ELSE "returned"
    /\ errori' = IF validaThrows(req.body) THEN <<>> ELSE validaImmagine(req.body)
    /\ UNCHANGED <<images, nextId, openConns, req, res, route, params, tests,
                   bodyRead, dbCalls, ret, thrown, created>>

SpecValida == InitValida /\ [][Valida]_vars

(***************************************************************************)
(* Properties                                                              *)
(***************************************************************************)
\* the data-model rules of an ImageRecord, field by field
UrlRule(x) == x.t = "string" /\ (MatchesHttp(x.s) \/ MatchesDataImage(x.s))
RatingRule(x) == x.t = "number" /\ ~x.nan /\ x.f = 0 /\ x.v >= VotoMin /\ x.v <= VotoMax
DescriptionRule(x) == x.t = "string" /\ Len(x.s) <= MaxDescrizione
PositionRule(x) == x.t = "number" /\ ~x.nan /\ x.f = 0

\* a payload that meets the data model; description and position may be absent
MeetsDataModel(p) ==
    /\ p.t = "object"
    /\ UrlRule(p.image_url)
    /\ RatingRule(p.rating)
    /\ p.description = Undefined \/ DescriptionRule(p.description)
    /\ p.position = Undefined \/ PositionRule(p.position)

\* C1: after any sequence of POST, PUT and DELETE requests every row of the
\* collection has a valid image_url, an integer rating in [1,5], a description
\* that is absent or a string of at most 200 characters, and an integer
\* position.
C1_RecordsMeetDataModel ==
    \A r \in images :
        /\ UrlRule(r.image_url)
        /\ RatingRule(r.rating)
        /\ r.description = Null \/ DescriptionRule(r.description)
        /\ PositionRule(r.position)

\* C2: when a storage operation has returned or thrown, the connection it
\* opened is closed: no connection is left open.
C2_NoConnectionLeftOpen == openConns = 0

\* C3: no storage operation lets an exception out to the handler: GET /images
\* always answers 200 with an array, a failed create answers 400, a failed
\* update or delete answers 404.
C3_FaultsBecomeFailureValues ==
    /\ dbCalls # <<>> => ~thrown
    /\ route = "GET /images" =>
          res.ended = 1 /\ res.statusCode = 200 /\ res.body.kind = "rows"
    /\ route = "POST /images" /\ ret = RetBool(FALSE) => res.statusCode = 400
    /\ route \in {"PUT /images/:id", "DELETE /images/:id"} /\ ret = RetBool(FALSE)
          => res.statusCode = 404

\* C4: on POST /images and PUT /images/:id, a non-empty list from the
\* validator is answered 400 with the full list, without any storage call and
\* with the collection unchanged; an empty list is followed by exactly one
\* storage call, the create or the update.
C4_ValidationGatesStorage ==
    [][ route' \in {"POST /images", "PUT /images/:id"} /\ valida' = "returned" =>
          IF errori' # <<>>
          THEN /\ res' = Respond(400, BodyErrori(validaImmagine(getBody(req'))),
                                 CorsHeaders \cup {JsonHeader})
               /\ dbCalls' = <<>>
               /\ images' = images
               /\ nextId' = nextId
          ELSE dbCalls' = (IF route' = "POST /images" THEN <<"salvaImmagine">>
                           ELSE <<"modificaImmagine">>) ]_vars

C4_Witness ==
    /\ route = "PUT /images/:id"
    /\ valida = "returned"
    /\ Len(errori) > 1
    /\ res.statusCode = 400
    /\ images # {}

\* the errors the rules of the validator call for, as sets of admissible
\* one-message or empty lists
UrlErrorDue(x) == x = Undefined \/ x.t # "string" \/ ~(MatchesHttp(x.s) \/ MatchesDataImage(x.s))
RatingErrorDue(x) ==
    \/ x \in {Undefined, Null}
    \/ ~(IsInteger(ToNumber(x)) /\ ToNumber(x).v \in VotoMin..VotoMax)
DescriptionErrorDue(x) == x.t = "string" /\ Len(x.s) > MaxDescrizione

IsParamSegment(seg) == seg # <<>> /\ seg[1] = Colon
RouteMatches(r, rt) ==
    /\ r.method = rt.method
    /\ Len(Split(r.url)) = Len(Split(rt.path))
    /\ \A i \in 1..Len(Split(rt.path)) :
          ~IsParamSegment(Split(rt.path)[i]) => Split(rt.path)[i] = Split(r.url)[i]

\* C6: a request other than OPTIONS takes the first route of the table whose
\* method and segments match it, each :name segment bound to the raw segment
\* of the path; a request that matches none is answered 404 with an empty
\* body and calls no storage operation.
C6_FirstMatchingRoute ==
    req.method \notin {"none", "OPTIONS"} =>
        IF \E i \in 1..Len(Routes) : RouteMatches(req, Routes[i])
        THEN LET i == CHOOSE k \in 1..Len(Routes) :
                          /\ RouteMatches(req, Routes[k])
                          /\ \A j \in 1..(k - 1) : ~RouteMatches(req, Routes[j])
                 t == Split(Routes[i].path)
             IN  /\ route = Routes[i].name
                 /\ \A j \in 1..Len(t) :
                       IsParamSegment(t[j]) =>
                           /\ SubSeq(t[j], 2, Len(t[j])) \in DOMAIN params
                           /\ params[SubSeq(t[j], 2, Len(t[j]))] = Split(req.url)[j]
        ELSE /\ route = "none"
             /\ res.ended = 1 /\ res.statusCode = 404 /\ res.body = BodyEmpty
             /\ dbCalls = <<>>

C6_Witness ==
    /\ route = "DELETE /images/:id"
    /\ params = Bind(NoParams, ParamId, <<"1">>)
    /\ tests = Len(Routes)
    /\ res.statusCode = 204

\* C7: an OPTIONS request to any path is answered 204 with an empty body and
\* the three CORS headers, and nothing else happens: no route is tried, the
\* body is not read, the validator and the storage are not called.
C7_OptionsShortCircuits ==
    req.method = "OPTIONS" =>
        /\ res.ended = 1 /\ res.statusCode = 204 /\ res.body = BodyEmpty
        /\ CorsHeaders \subseteq res.headers
        /\ route = "OPTIONS"
        /\ tests = 0
        /\ ~bodyRead
        /\ valida = "no"
        /\ dbCalls = <<>>
        /\ ~thrown

C7_Witness ==
    /\ req.method = "OPTIONS"
    /\ req.body \in ValidBodies
    /\ res.statusCode = 204
    /\ images # {}

\* C8: a record created from a payload that meets the data model and then
\* fetched by the id storage gave it has the payload's image_url, description
\* and rating, and the payload's position, or 0 when the payload has none.
C8_CreateThenGetRoundTrip ==
    /\ route = "GET /images/:id"
    /\ res.statusCode = 200
    /\ res.body.kind = "row"
    /\ res.body.row.id = created.id
    /\ MeetsDataModel(created.body)
    => LET row == res.body.row
           p == created.body
       IN  /\ row.image_url = p.image_url
           /\ row.rating = p.rating
           /\ row.description = (IF p.description = Undefined THEN Null ELSE p.description)
           /\ row.position = (IF p.position = Undefined THEN Num(0) ELSE p.position)

C8_Witness ==
    /\ route = "GET /images/:id"
    /\ res.statusCode = 200
    /\ res.body.kind = "row"
    /\ res.body.row.id = created.id
    /\ MeetsDataModel(created.body)
    /\ created.body.position = Undefined
    /\ res.body.row.position = Num(0)

\* C9: after any sequence of create, update, delete and reorder operations the
\* list operation returns every row exactly once, by position ascending and,
\* for equal positions, by id descending.
C9_ListIsCompleteAndOrdered ==
    dbCalls = <<"getImmagini">> /\ ret.kind = "rows" =>
        LET rs == ret.rows
        IN  /\ Len(rs) = Cardinality(images)
            /\ {rs[i] : i \in 1..Len(rs)} = images
            /\ \A i \in 1..Len(rs) : \A j \in (i + 1)..Len(rs) :
                  /\ rs[i].position = rs[j].position => rs[i].id > rs[j].id
                  /\ rs[i].position # Null /\ rs[j].position # Null
                        => rs[i].position.v <= rs[j].position.v

C9_Witness ==
    /\ dbCalls = <<"getImmagini">>
    /\ ret.kind = "rows"
    /\ Len(ret.rows) = 3
    /\ ret.rows[1].position = Num(0)
    /\ ret.rows[2].position = Num(0)
    /\ ret.rows[3].position = Num(1)
    /\ ret.rows[3].id = 1

\* C10: every POST /images or PUT /images/:id whose body has been read is
\* answered exactly once, with 201 or 400 (POST) or 204, 400 or 404 (PUT),
\* whatever the body is, and never ends by an exception.
C10_BodyRequestsAreAnswered ==
    route \in {"POST /images", "PUT /images/:id"} =>
        /\ ~thrown
        /\ res.ended = 1
        /\ res.statusCode \in (IF route = "POST /images" THEN {201, 400}
                               ELSE {204, 400, 404})

====
